---- MODULE Spec2Model ----
(***************************************************************************)
(* Model of igem-wikisync: main() of main.py (one synchronisation run,     *)
(* repeated over the same persisted upload_map.yml) and the file           *)
(* descriptors of igem_wikisync/files.py.                                  *)
(***************************************************************************)
EXTENDS Integers, Sequences, FiniteSets, TLC

\* ------------------------------------------------------------------ bounds
MaxRuns == 2        \* consecutive runs of main() over the same working directory
MaxFaults == 2      \* failures of external operations injected in one behaviour

\* ------------------------------------------------------- pathlib, config
\* the configuration main() reads from wikisync's arguments
VARIABLE config

\* the configuration of the runs over Tree
RunConfig == [src_dir |-> "src", build_dir |-> "build", team |-> "MYTEAM",
              assets |-> <<"assets">>]

\* A Path relative to src_dir: parent directories, stem and suffix.
MkPath(dir, stem, suffix) == [dir |-> dir, stem |-> stem, suffix |-> suffix]

RECURSIVE Join(_, _)
Join(parts, sep) ==
    IF parts = <<>> THEN ""
    ELSE IF Len(parts) = 1 THEN parts[1]
    ELSE parts[1] \o sep \o Join(Tail(parts), sep)

\* Path.parts
Parts(p) == p.dir \o <<p.stem \o p.suffix>>

\* str(path)
Str(p) == Join(Parts(p), "/")

\* str(path.parent): "." for a file directly under src_dir
ParentStr(p) == IF p.dir = <<>> THEN "." ELSE Join(p.dir, "/")

\* infile.suffix[1:].lower() on the suffixes that occur in the tree
Extension(p) ==
    CASE p.suffix \in {".html", ".HTML"} -> "html"
      [] p.suffix \in {".css", ".CSS"} -> "css"
      [] p.suffix \in {".js", ".JS"} -> "js"
      [] p.suffix \in {".png", ".PNG"} -> "png"
      [] p.suffix = ".pdf" -> "pdf"
      [] p.suffix = ".md" -> "md"
      [] OTHER -> ""

AssetExtensions ==
    {"png", "gif", "jpg", "jpeg", "pdf", "ppt", "txt", "zip", "mp3", "mp4",
     "webm", "mov", "swf", "xls", "xlsx", "docx", "pptx", "csv", "m", "ogg",
     "gb", "tif", "tiff", "fcs", "otf", "eot", "ttf", "woff", "svg"}

\* ------------------------------------------------------- the source tree
IndexHtml == MkPath(<<>>, "index", ".html")
StyleCss == MkPath(<<"css">>, "style", ".css")
AppJs == MkPath(<<"js">>, "app", ".JS")
LogoPng == MkPath(<<"assets", "img">>, "logo", ".png")
PaperPdf == MkPath(<<"assets">>, "paper", ".pdf")
ReadmeMd == MkPath(<<>>, "README", ".md")

\* the files os.walk(src_dir) yields
Tree == {IndexHtml, StyleCss, AppJs, LogoPng, PaperPdf, ReadmeMd}

TreeOf(exts) == {p \in Tree : Extension(p) \in exts}
PathOf(key) == CHOOSE p \in Tree : Str(p) = key

\* ------------------------------------------------------------- files.py
\* mutant of HTML_generate_upload_path: no special case for the source root
HTML_generate_upload_path_plain(p) == "/" \o ParentStr(p)

\* HTMLfile._generate_upload_path
HTML_generate_upload_path(p) ==
    LET upload_path == ParentStr(p)
    IN  IF upload_path = "." THEN "" ELSE "/" \o upload_path

\* mutant of HTML_generate_upload_URL: the upload path is left out
HTML_generate_upload_URL_team(p) ==
    "https://2020.igem.org/wiki/index.php?title=Team:" \o config.team
        \o "&action=edit"

\* HTMLfile._generate_upload_URL
HTML_generate_upload_URL(p) ==
    "https://2020.igem.org/wiki/index.php?title=Team:" \o config.team
        \o HTML_generate_upload_path(p) \o "&action=edit"

HTML_generate_link_URL(p) ==
    "https://2020.igem.org/Team:" \o config.team \o HTML_generate_upload_path(p)

\* str(self.path.parent / self.path.stem); no name of the tree holds a "."
\* besides the suffix, so .replace('.', '-') leaves it as it is
ParentStem(p) == Join(p.dir \o <<p.stem>>, "/")

CSS_generate_upload_path(p) == "/" \o ParentStem(p) \o "CSS"

CSS_generate_upload_URL(p) ==
    "https://2020.igem.org/wiki/index.php?title=Template:" \o config.team
        \o CSS_generate_upload_path(p) \o "&action=edit"

CSS_generate_link_URL(p) ==
    "https://2020.igem.org/Template:" \o config.team
        \o CSS_generate_upload_path(p) \o "?action=raw&ctype=text/css"

JS_generate_upload_path(p) == "/" \o ParentStem(p) \o "JS"

JS_generate_upload_URL(p) ==
    "https://2020.igem.org/wiki/index.php?title=Template:" \o config.team
        \o JS_generate_upload_path(p) \o "&action=edit"

JS_generate_link_URL(p) ==
    "https://2020.igem.org/Template:" \o config.team
        \o JS_generate_upload_path(p) \o "?action=raw&ctype=text/javascript"

HTMLfile(p) == [path |-> p, extension |-> Extension(p),
                upload_URL |-> HTML_generate_upload_URL(p),
                link_URL |-> HTML_generate_link_URL(p)]

CSSfile(p) == [path |-> p, extension |-> Extension(p),
               upload_URL |-> CSS_generate_upload_URL(p),
               link_URL |-> CSS_generate_link_URL(p)]

JSfile(p) == [path |-> p, extension |-> Extension(p),
              upload_URL |-> JS_generate_upload_URL(p),
              link_URL |-> JS_generate_link_URL(p)]

\* mutant of generate_upload_filename: the first component is dropped
\* whenever there is an asset root
generate_upload_filename_any_root(p) ==
    IF Len(config.assets) >= 1
    THEN "T--" \o config.team \o "--" \o Join(Tail(Parts(p)), "--")
    ELSE "T--" \o config.team \o "--" \o Join(Parts(p), "--")

\* OtherFile._generate_upload_filename
generate_upload_filename(p) ==
    IF Len(config.assets) = 1
    THEN "T--" \o config.team \o "--" \o Join(Tail(Parts(p)), "--")
    ELSE "T--" \o config.team \o "--" \o Join(Parts(p), "--")

\* contents of a source file at a version
Contents(v) == "v" \o ToString(v)

\* OtherFile._generate_md5_hash: hexdigest of the raw bytes
generate_md5_hash(bytes) == "sha1(" \o bytes \o ")"

SpecialUpload == "https://2020.igem.org/Special:Upload"

OtherFile(p, bytes) ==
    [path |-> p, extension |-> Extension(p), upload_URL |-> SpecialUpload,
     upload_filename |-> generate_upload_filename(p),
     md5_hash |-> generate_md5_hash(bytes)]

\* OtherFile.set_upload_URL
set_upload_URL(file_object, url) == [file_object EXCEPT !.upload_URL = url]

\* ------------------------------------------------- the persisted sync map
Keys == {"assets", "html", "css", "js"}

EmptyMap == [key \in Keys |-> <<>>]

\* dict[key] = value
Put(entries, key, value) ==
    [k \in DOMAIN entries \cup {key} |-> IF k = key THEN value ELSE entries[k]]

\* upload_map.yml: absent, not parseable as YAML, or a YAML document
Missing == [kind |-> "missing", doc |-> <<>>]
Unparseable == [kind |-> "unparseable", doc |-> <<>>]
YamlFile(doc) == [kind |-> "yaml", doc |-> doc]

\* YAML values: a mapping, or anything else (scalar, list, null)
YDict(f) == [type |-> "dict", val |-> f]
YScalar == [type |-> "scalar", val |-> <<>>]

\* yaml.dump(upload_map, file, sort_keys=True)
Dump(map) == YDict([key \in DOMAIN map |-> YDict(map[key])])

\* the exception main() meets between open('upload_map.yml') and the end of
\* the key loop, "none" when it meets none
load_exception(d) ==
    IF d.kind = "missing" THEN "FileNotFoundError"
    ELSE IF d.kind = "unparseable" THEN "YAMLError"
    ELSE IF d.doc.type # "dict" THEN "AttributeError"
    ELSE IF \E key \in Keys : key \in DOMAIN d.doc.val
                              /\ d.doc.val[key].type # "dict" THEN "SystemExit"
    ELSE "none"

\* mutant of healed: a missing key makes the loader start from the empty map
healed_resets(d) ==
    IF Keys \subseteq DOMAIN d.doc.val
    THEN [key \in DOMAIN d.doc.val |-> d.doc.val[key].val]
    ELSE [key \in Keys |-> <<>>]

\* the loaded document with every missing key set to {}
healed(d) ==
    [key \in DOMAIN d.doc.val \cup Keys |->
        IF key \in DOMAIN d.doc.val THEN d.doc.val[key].val ELSE <<>>]

\* a bare "except:" catches every BaseException, SystemExit included
bare_except(exc) == exc # "none"

\* main(), "load or create upload_map": the exception that leaves the
\* try statement and the map bound to upload_map
load_upload_map(d) ==
    LET exc == load_exception(d)
    IN  IF exc = "none" THEN [exc |-> "none", map |-> healed(d)]
        ELSE IF bare_except(exc) THEN [exc |-> "none", map |-> EmptyMap]
        ELSE [exc |-> exc, map |-> <<>>]

\* ------------------------------------------------ code_parsers, hashlib
\* the site-relative references each document of the tree contains
Refs(p) ==
    CASE p = IndexHtml -> <<Str(LogoPng), Str(StyleCss), Str(AppJs)>>
      [] p = StyleCss -> <<Str(LogoPng)>>
      [] OTHER -> <<>>

\* the URL a reference is rewritten to: the link_URL the map knows for it,
\* the reference itself when the map has no entry
LinkOf(map, ref) ==
    IF \E key \in Keys : ref \in DOMAIN map[key]
    THEN LET key == CHOOSE key \in Keys : ref \in DOMAIN map[key]
         IN  map[key][ref].link_URL
    ELSE ref

RECURSIVE Rewrite(_, _, _)
Rewrite(contents, refs, map) ==
    IF refs = <<>> THEN contents
    ELSE Rewrite(contents \o "[" \o LinkOf(map, Head(refs)) \o "]", Tail(refs), map)

HTMLparser(cfg, path, contents, map) == Rewrite(contents, Refs(path), map)
CSSparser(cfg, path, contents, map) == Rewrite(contents, Refs(path), map)
JSparser(contents) == contents

\* md5(processed.encode('utf-8')).hexdigest()
md5_hexdigest(processed) == "md5(" \o processed \o ")"

\* the URLs the server may answer an asset upload with
RemoteURLs == {"https://2020.igem.org/wiki/images/a/a1/upload",
               "https://2020.igem.org/wiki/images/b/b2/upload"}

\* ----------------------------------------------------------------- state
VARIABLES
    run,          \* number of the current run of main()
    pc,           \* position of main(): config, load_map, login, classify,
                  \* assets, docs, done
    exit_code,    \* exit status of the process once pc = "done", -1 before
    fatal,        \* why the run ended early: none, config, login, asset, crash
    src,          \* version of the contents of each source file
    disk,         \* upload_map.yml
    loaded,       \* upload_map.yml as this run found it
    upload_map,   \* the in-memory map
    HTMLfiles, CSSfiles, JSfiles, OtherFiles,   \* descriptors, by str(path)
    log,          \* what this run did so far
    prev,         \* how the previous run ended and what changed since
    faults        \* failures injected so far

\* ghost: the URL each asset's most recent successful upload returned, over
\* all runs
VARIABLE remote

vars == <<config, remote, run, pc, exit_code, fatal, src, disk, loaded, upload_map,
          HTMLfiles, CSSfiles, JSfiles, OtherFiles, log, prev, faults>>

EmptyLog ==
    [asset_attempts |-> {}, assets_done |-> {}, asset_failed |-> {},
     docs_done |-> {}, read_failed |-> {}, doc_skipped |-> {},
     build_writes |-> {}, write_failed |-> {},
     page_uploads |-> {}, upload_failed |-> {},
     saves |-> <<>>, clean |-> TRUE]

HtmlKeys == {Str(p) : p \in TreeOf({"html"})}
CssKeys == {Str(p) : p \in TreeOf({"css"})}
JsKeys == {Str(p) : p \in TreeOf({"js"})}
AssetKeys == {Str(p) : p \in TreeOf(AssetExtensions)}
DocKeys == HtmlKeys \cup CssKeys \cup JsKeys

\* a map an earlier run over an older tree left behind
OldMap ==
    [assets |-> ("assets/old.png" :>
                    [link_URL |-> "https://2020.igem.org/wiki/images/0",
                     md5 |-> generate_md5_hash(Contents(0)),
                     upload_filename |-> "T--MYTEAM--old.png"]),
     html |-> ("old/index.html" :>
                    [md5 |-> md5_hexdigest(Contents(0)),
                     link_URL |-> "https://2020.igem.org/Team:MYTEAM/old"]),
     css |-> ("css/old.css" :>
                    [md5 |-> md5_hexdigest(Contents(0)),
                     link_URL |-> "https://2020.igem.org/Template:MYTEAM/css/oldCSS?action=raw&ctype=text/css"]),
     js |-> ("js/old.js" :>
                    [md5 |-> md5_hexdigest(Contents(0)),
                     link_URL |-> "https://2020.igem.org/Template:MYTEAM/js/oldJS?action=raw&ctype=text/javascript"])]

\* OldMap as a YAML document with some sections deleted and some replaced
\* by a scalar
Damaged(missing, scalar) ==
    YamlFile(YDict([key \in Keys \ missing |->
                        IF key \in scalar THEN YScalar ELSE YDict(OldMap[key])]))

InitialDisks ==
    {Missing, Unparseable, YamlFile(YScalar), Damaged({}, {}),
     Damaged({"css"}, {}), Damaged({"assets"}, {}),
     Damaged({}, {"js"}), Damaged({}, {"assets"}), Damaged({"assets"}, {"js"})}

Init ==
    /\ config = <<>>
    /\ remote = <<>>
    /\ run = 1
    /\ pc = "config"
    /\ exit_code = -1
    /\ fatal = "none"
    /\ src = [k \in DocKeys \cup AssetKeys |-> 1]
    /\ disk \in InitialDisks
    /\ loaded = Missing
    /\ upload_map = <<>>
    /\ HTMLfiles = <<>> /\ CSSfiles = <<>> /\ JSfiles = <<>> /\ OtherFiles = <<>>
    /\ log = EmptyLog
    /\ prev = [ok |-> FALSE, disk |-> Missing, changed |-> {}, failed |-> {}]
    /\ faults = 0

\* the process ends: SystemExit() carries no code, so the status is 0; an
\* exception nobody catches ends it with status 1
Exit(code, why) ==
    /\ pc' = "done"
    /\ exit_code' = code
    /\ fatal' = why

\* a failure of an external operation, counted against MaxFaults
Fail(n) ==
    /\ faults + n <= MaxFaults
    /\ faults' = faults + n

NoFail == faults' = faults

\* ------------------------------------------------------ write_upload_map
WriteOutcomes == {"ok", "open_failed", "dump_failed"}

\* upload_map.yml after write_upload_map(map): written; untouched when open()
\* fails; truncated by open(filename, 'w') when yaml.dump fails
written_file(map, w) ==
    IF w = "ok" THEN YamlFile(Dump(map))
    ELSE IF w = "open_failed" THEN disk
    ELSE Unparseable

Cost(w) == IF w = "ok" THEN 0 ELSE 1

\* mutant of write_upload_map: a fresh map is dumped in place of the argument
write_upload_map_fresh(map, at, w, lg) ==
    /\ disk' = written_file(EmptyMap, w)
    /\ log' = [lg EXCEPT !.saves = Append(@, [at |-> at, ok |-> w = "ok", map |-> EmptyMap]),
                         !.clean = @ /\ w = "ok"]

\* write_upload_map(upload_map) called at `at`; the except clause swallows
\* the failure
write_upload_map(map, at, w, lg) ==
    /\ disk' = written_file(map, w)
    /\ log' = [lg EXCEPT !.saves = Append(@, [at |-> at, ok |-> w = "ok", map |-> map]),
                         !.clean = @ /\ w = "ok"]

\* ------------------------------------------------------------ main(): start
\* read config file
ReadConfig ==
    /\ pc = "config"
    /\ \E ok \in BOOLEAN :
        IF ok
        THEN /\ config' = RunConfig
             /\ pc' = "load_map"
             /\ NoFail
             /\ UNCHANGED <<exit_code, fatal, log>>
        ELSE /\ Fail(1)
             /\ Exit(0, "config")
             /\ log' = [log EXCEPT !.clean = FALSE]
             /\ UNCHANGED config
    /\ UNCHANGED <<remote, run, src, disk, loaded, upload_map,
                   HTMLfiles, CSSfiles, JSfiles, OtherFiles, prev>>

\* load or create upload_map
LoadMap ==
    /\ pc = "load_map"
    /\ loaded' = disk
    /\ LET r == load_upload_map(disk)
       IN  IF r.exc = "none"
           THEN /\ upload_map' = r.map
                /\ pc' = "login"
                /\ UNCHANGED <<exit_code, fatal>>
           ELSE /\ Exit(IF r.exc = "SystemExit" THEN 0 ELSE 1, "map")
                /\ UNCHANGED upload_map
    /\ UNCHANGED <<config, remote, run, src, disk, HTMLfiles, CSSfiles, JSfiles, OtherFiles,
                   log, prev, faults>>

\* login to iGEM
Login ==
    /\ pc = "login"
    /\ \E ok \in BOOLEAN :
        IF ok
        THEN /\ pc' = "classify"
             /\ NoFail
             /\ UNCHANGED <<exit_code, fatal, log>>
        ELSE /\ Fail(1)
             /\ Exit(0, "login")
             /\ log' = [log EXCEPT !.clean = FALSE]
    /\ UNCHANGED <<config, remote, run, src, disk, loaded, upload_map,
                   HTMLfiles, CSSfiles, JSfiles, OtherFiles, prev>>

\* ------------------------------------------------- main(): classification
\* mutant of path_eq_str: the path is compared as its string
path_eq_str_as_text(path, key) == Str(path) = key

\* `path == key` for a pathlib path and a str key of the map: PurePath.__eq__
\* answers NotImplemented for a str, and the comparison is False
path_eq_str(path, key) == FALSE

\* `file_object.path not in upload_map[...].keys()`
path_not_in_keys(path, keys) == \A key \in keys : ~path_eq_str(path, key)

\* mutant of preregister: the new entry is left without its link URL
preregister_unlinked(entries, files) ==
    [k \in DOMAIN entries \cup DOMAIN files |->
        IF k \in DOMAIN files /\ path_not_in_keys(files[k].path, DOMAIN entries)
        THEN [md5 |-> "", link_URL |-> ""]
        ELSE entries[k]]

\* the section of the map after the walk met every file of `files`
preregister(entries, files) ==
    [k \in DOMAIN entries \cup DOMAIN files |->
        IF k \in DOMAIN files /\ path_not_in_keys(files[k].path, DOMAIN entries)
        THEN [md5 |-> "", link_URL |-> files[k].link_URL]
        ELSE entries[k]]

\* for each file in src_dir
Classify ==
    /\ pc = "classify"
    /\ \E readable \in BOOLEAN :
        IF readable
        THEN LET html == [k \in HtmlKeys |-> HTMLfile(PathOf(k))]
                 css == [k \in CssKeys |-> CSSfile(PathOf(k))]
                 js == [k \in JsKeys |-> JSfile(PathOf(k))]
             IN  /\ HTMLfiles' = html
                 /\ CSSfiles' = css
                 /\ JSfiles' = js
                 /\ OtherFiles' = [k \in AssetKeys |->
                                      OtherFile(PathOf(k), Contents(src[k]))]
                 /\ upload_map' = [upload_map EXCEPT
                                      !.html = preregister(@, html),
                                      !.css = preregister(@, css),
                                      !.js = preregister(@, js)]
                 /\ pc' = "assets"
                 /\ NoFail
                 /\ UNCHANGED <<exit_code, fatal, log>>
        \* OtherFile.__init__ hashes the file; nothing catches its IOError
        ELSE /\ AssetKeys # {}
             /\ Fail(1)
             /\ Exit(1, "crash")
             /\ log' = [log EXCEPT !.clean = FALSE]
             /\ UNCHANGED <<HTMLfiles, CSSfiles, JSfiles, OtherFiles, upload_map>>
    /\ UNCHANGED <<config, remote, run, src, disk, loaded, prev>>

\* ---------------------------------------------------- main(): asset phase
\* mutant of needs_upload: only a path the map does not know is uploaded
needs_upload_new_only(entries, key, file_object) == key \notin DOMAIN entries

\* the asset loop uploads unless it finds the path with an equal digest
needs_upload(entries, key, file_object) ==
    ~(key \in DOMAIN entries /\ file_object.md5_hash = entries[key].md5)

\* browser_helpers.iGEM_upload_file, when it succeeds: the descriptor
\* learns the URL the server assigned
iGEM_upload_file(file_object, url) == set_upload_URL(file_object, url)

\* mutant of store_asset: an entry the map already has keeps its link URL
store_asset_keeps_link(entries, key, file_object) ==
    IF key \in DOMAIN entries
    THEN [entries EXCEPT ![key].md5 = file_object.md5_hash]
    ELSE Put(entries, key, [link_URL |-> file_object.upload_URL,
                            md5 |-> file_object.md5_hash,
                            upload_filename |-> file_object.upload_filename])

\* the asset section after a successful upload
store_asset(entries, key, file_object) ==
    IF key \in DOMAIN entries
    THEN [entries EXCEPT ![key].md5 = file_object.md5_hash,
                         ![key].link_URL = file_object.upload_URL]
    ELSE Put(entries, key, [link_URL |-> file_object.upload_URL,
                            md5 |-> file_object.md5_hash,
                            upload_filename |-> file_object.upload_filename])

\* mutant of asset_upload_failed: the handler leaves without saving the map
asset_upload_failed_unsaved(a, w) ==
    /\ w = "ok"
    /\ Fail(1)
    /\ log' = [log EXCEPT !.asset_attempts = @ \cup {a},
                          !.asset_failed = @ \cup {a},
                          !.clean = FALSE]
    /\ Exit(0, "asset")
    /\ UNCHANGED <<disk, upload_map, OtherFiles, remote>>

\* except BaseException: save the map and leave
asset_upload_failed(a, w) ==
    /\ Fail(1 + Cost(w))
    /\ write_upload_map(upload_map, "asset_failure", w,
            [log EXCEPT !.asset_attempts = @ \cup {a},
                        !.asset_failed = @ \cup {a},
                        !.clean = FALSE])
    /\ Exit(0, "asset")
    /\ UNCHANGED <<upload_map, OtherFiles, remote>>

\* the order in which os.walk (top-down) inserted the assets into OtherFiles:
\* the files of assets/ before those of assets/img/
AssetOrder == <<Str(PaperPdf), Str(LogoPng)>>

\* the asset the loop takes next
NextAssets ==
    LET rest == {i \in 1..Len(AssetOrder) : AssetOrder[i] \notin log.assets_done}
    IN  {AssetOrder[i] : i \in {j \in rest : \A k \in rest : j <= k}}

\* one iteration of `for path in OtherFiles.keys()`
ProcessAsset ==
    /\ pc = "assets"
    /\ \E a \in NextAssets :
        IF ~needs_upload(upload_map.assets, a, OtherFiles[a])
        THEN /\ log' = [log EXCEPT !.assets_done = @ \cup {a}]
             /\ NoFail
             /\ UNCHANGED <<pc, exit_code, fatal, disk, upload_map, OtherFiles,
                            remote>>
        ELSE \E result \in RemoteURLs \cup {"failed"}, w \in WriteOutcomes :
                IF result = "failed"
                THEN asset_upload_failed(a, w)
                ELSE /\ w = "ok"
                     /\ NoFail
                     /\ LET file_object == iGEM_upload_file(OtherFiles[a], result)
                        IN  /\ OtherFiles' = [OtherFiles EXCEPT ![a] = file_object]
                            /\ upload_map' = [upload_map EXCEPT
                                   !.assets = store_asset(@, a, file_object)]
                     /\ remote' = Put(remote, a, result)
                     /\ log' = [log EXCEPT !.asset_attempts = @ \cup {a},
                                           !.assets_done = @ \cup {a}]
                     /\ UNCHANGED <<pc, exit_code, fatal, disk>>
    /\ UNCHANGED <<config, run, src, loaded, HTMLfiles, CSSfiles, JSfiles, prev>>

\* mutant of AssetCheckpoint: the document phase starts without the save
AssetCheckpoint_skipped ==
    /\ pc = "assets"
    /\ log.assets_done = AssetKeys
    /\ pc' = "docs"
    /\ UNCHANGED <<config, remote, run, exit_code, fatal, src, disk, loaded, upload_map,
                   HTMLfiles, CSSfiles, JSfiles, OtherFiles, log, prev, faults>>

\* write upload map just in case things go wrong while dealing with code
AssetCheckpoint ==
    /\ pc = "assets"
    /\ NextAssets = {}
    /\ \E w \in WriteOutcomes :
        /\ Fail(Cost(w))
        /\ write_upload_map(upload_map, "checkpoint", w, log)
    /\ pc' = "docs"
    /\ UNCHANGED <<config, remote, run, exit_code, fatal, src, loaded, upload_map,
                   HTMLfiles, CSSfiles, JSfiles, OtherFiles, prev>>

\* ------------------------------------------------- main(): document phase
\* the dictionaries [HTMLfiles, CSSfiles, JSfiles], in this order
FileDictionaries == <<HTMLfiles, CSSfiles, JSfiles>>

\* the documents the loop may take next
NextDocs ==
    LET rest(i) == DOMAIN FileDictionaries[i] \ log.docs_done
    IN  IF rest(1) # {} THEN rest(1)
        ELSE IF rest(2) # {} THEN rest(2)
        ELSE rest(3)

FileObject(d) ==
    IF d \in DOMAIN HTMLfiles THEN HTMLfiles[d]
    ELSE IF d \in DOMAIN CSSfiles THEN CSSfiles[d]
    ELSE JSfiles[d]

\* parse and modify contents
transform(file_object, contents, map) ==
    IF file_object.extension = "html"
    THEN HTMLparser(config, file_object.path, contents, map)
    ELSE IF file_object.extension = "css"
    THEN CSSparser(config, file_object.path, contents, map)
    ELSE JSparser(contents)

\* build_hash of a document against a map
BuildHash(d, map) ==
    md5_hexdigest(transform(FileObject(d), Contents(src[d]), map))

DocOutcomes == {"ok", "read_failed", "write_failed", "upload_failed"}

\* mutant of continue_loop: a failed page upload ends the run as a failed
\* asset upload does
continue_loop_fatal(r) ==
    IF r = "upload_failed" THEN Exit(0, "document")
    ELSE UNCHANGED <<pc, exit_code, fatal>>

\* the `continue` of the three except clauses: the loop goes on
continue_loop(r) == UNCHANGED <<pc, exit_code, fatal>>

\* the body of the document loop for document d, the external operations
\* answering r
document_body(d, r) ==
    LET ext == FileObject(d).extension
        build_hash == BuildHash(d, upload_map)
        lg == [log EXCEPT !.docs_done = @ \cup {d}, !.clean = @ /\ r = "ok"]
    IN  IF r = "read_failed"
        THEN /\ log' = [lg EXCEPT !.read_failed = @ \cup {d}]
             /\ UNCHANGED upload_map
        ELSE IF upload_map[ext][d].md5 = build_hash
        THEN /\ r = "ok"
             /\ log' = [lg EXCEPT !.doc_skipped = @ \cup {d}]
             /\ UNCHANGED upload_map
        ELSE /\ upload_map' = [upload_map EXCEPT ![ext][d].md5 = build_hash]
             /\ log' = IF r = "write_failed"
                       THEN [lg EXCEPT !.build_writes = @ \cup {d},
                                       !.write_failed = @ \cup {d}]
                       ELSE IF r = "upload_failed"
                       THEN [lg EXCEPT !.build_writes = @ \cup {d},
                                       !.page_uploads = @ \cup {d},
                                       !.upload_failed = @ \cup {d}]
                       ELSE [lg EXCEPT !.build_writes = @ \cup {d},
                                       !.page_uploads = @ \cup {d}]

\* one iteration of `for path in file_dictionary.keys()`
ProcessDocument ==
    /\ pc = "docs"
    /\ \E d \in NextDocs, r \in DocOutcomes :
        /\ IF r = "ok" THEN NoFail ELSE Fail(1)
        /\ document_body(d, r)
        /\ continue_loop(r)
    /\ UNCHANGED <<config, remote, run, src, disk, loaded, HTMLfiles, CSSfiles, JSfiles,
                   OtherFiles, prev>>

\* mutant of FinalSave: main() returns without the final save
FinalSave_skipped ==
    /\ pc = "docs"
    /\ log.docs_done = DocKeys
    /\ Exit(0, "none")
    /\ UNCHANGED <<config, remote, run, src, disk, loaded, upload_map, HTMLfiles, CSSfiles,
                   JSfiles, OtherFiles, log, prev, faults>>

\* write final upload map, and main() returns
FinalSave ==
    /\ pc = "docs"
    /\ NextDocs = {}
    /\ \E w \in WriteOutcomes :
        /\ Fail(Cost(w))
        /\ write_upload_map(upload_map, "final", w, log)
    /\ Exit(0, "none")
    /\ UNCHANGED <<config, remote, run, src, loaded, upload_map,
                   HTMLfiles, CSSfiles, JSfiles, OtherFiles, prev>>

\* --------------------------------------------------------- the next run
\* the files the operator edits between two runs: a document and an asset
Editable == {Str(IndexHtml), Str(LogoPng)}

\* the documents whose build write or upload failed in a run that went on
\* to its end and saved its map
FailedAndSaved ==
    IF fatal = "none" /\ log.saves # <<>> /\ log.saves[Len(log.saves)].ok
    THEN log.write_failed \cup log.upload_failed
    ELSE {}

\* the operator edits at most one source file and runs main() again
NextRun ==
    /\ pc = "done"
    /\ run < MaxRuns
    /\ \E change \in {{}} \cup {{k} : k \in Editable} :
        /\ src' = [k \in DOMAIN src |-> IF k \in change THEN src[k] + 1 ELSE src[k]]
        /\ prev' = [ok |-> fatal = "none" /\ log.clean, disk |-> disk,
                    changed |-> change, failed |-> FailedAndSaved]
    /\ run' = run + 1
    /\ config' = <<>>
    /\ pc' = "config"
    /\ exit_code' = -1
    /\ fatal' = "none"
    /\ loaded' = Missing
    /\ upload_map' = <<>>
    /\ HTMLfiles' = <<>> /\ CSSfiles' = <<>> /\ JSfiles' = <<>> /\ OtherFiles' = <<>>
    /\ log' = EmptyLog
    /\ UNCHANGED <<remote, disk, faults>>

\* the steps of main()
RunStep ==
    \/ ReadConfig
    \/ LoadMap
    \/ Login
    \/ Classify
    \/ ProcessAsset
    \/ AssetCheckpoint
    \/ ProcessDocument
    \/ FinalSave

Next == RunStep \/ NextRun

Spec == Init /\ [][Next]_vars

\* one run of main(): sequential code that is scheduled until it ends
FairSpec == Init /\ [][RunStep]_vars /\ WF_vars(RunStep)

\* ------------------------------------- the walk over an arbitrary tree
\* bounds of the trees walked
MaxDepth == 2       \* directories above a file
MaxFiles == 2       \* files of a tree

DirNames == {"assets", "about"}
FileNames == {<<"index", ".html">>, <<"team", ".html">>, <<"style", ".css">>,
              <<"app", ".JS">>, <<"logo", ".png">>}

RECURSIVE DirsOfDepth(_)
DirsOfDepth(n) ==
    IF n = 0 THEN {<<>>}
    ELSE {<<d>> \o rest : d \in DirNames, rest \in DirsOfDepth(n - 1)}

\* the paths os.walk(src_dir) can yield, relative to src_dir
Paths ==
    {MkPath(dir, f[1], f[2]) :
        dir \in UNION {DirsOfDepth(n) : n \in 0..MaxDepth}, f \in FileNames}

\* configurations with one asset root and with two
Configs ==
    {[src_dir |-> "src", build_dir |-> "build", team |-> "MYTEAM", assets |-> a] :
        a \in {<<"assets">>, <<"assets", "about">>}}

\* the files met so far
Walked ==
    DOMAIN HTMLfiles \cup DOMAIN CSSfiles \cup DOMAIN JSfiles \cup DOMAIN OtherFiles

\* main() in front of `for root, _, files in os.walk(src_dir)`, the map
\* created anew
WalkInit ==
    /\ config \in Configs
    /\ remote = <<>>
    /\ run = 1
    /\ pc = "classify"
    /\ exit_code = -1
    /\ fatal = "none"
    /\ src = [k \in DocKeys \cup AssetKeys |-> 1]
    /\ disk = Missing
    /\ loaded = Missing
    /\ upload_map = EmptyMap
    /\ HTMLfiles = <<>> /\ CSSfiles = <<>> /\ JSfiles = <<>> /\ OtherFiles = <<>>
    /\ log = EmptyLog
    /\ prev = [ok |-> FALSE, disk |-> Missing, changed |-> {}, failed |-> {}]
    /\ faults = 0

\* the walk yields a file not met before
Yields(p, exts) ==
    /\ pc = "classify"
    /\ Cardinality(Walked) < MaxFiles
    /\ Str(p) \notin Walked
    /\ Extension(p) \in exts

\* if extension == 'html'
WalkHTML ==
    \E p \in Paths :
        /\ Yields(p, {"html"})
        /\ LET file_object == HTMLfile(p)
           IN  /\ HTMLfiles' = Put(HTMLfiles, Str(p), file_object)
               /\ upload_map' = [upload_map EXCEPT
                      !.html = preregister(@, Str(p) :> file_object)]
        /\ UNCHANGED <<config, remote, run, pc, exit_code, fatal, src, disk, loaded,
                       CSSfiles, JSfiles, OtherFiles, log, prev, faults>>

\* elif extension == 'css'
WalkCSS ==
    \E p \in Paths :
        /\ Yields(p, {"css"})
        /\ LET file_object == CSSfile(p)
           IN  /\ CSSfiles' = Put(CSSfiles, Str(p), file_object)
               /\ upload_map' = [upload_map EXCEPT
                      !.css = preregister(@, Str(p) :> file_object)]
        /\ UNCHANGED <<config, remote, run, pc, exit_code, fatal, src, disk, loaded,
                       HTMLfiles, JSfiles, OtherFiles, log, prev, faults>>

\* elif extension == 'js'
WalkJS ==
    \E p \in Paths :
        /\ Yields(p, {"js"})
        /\ LET file_object == JSfile(p)
           IN  /\ JSfiles' = Put(JSfiles, Str(p), file_object)
               /\ upload_map' = [upload_map EXCEPT
                      !.js = preregister(@, Str(p) :> file_object)]
        /\ UNCHANGED <<config, remote, run, pc, exit_code, fatal, src, disk, loaded,
                       HTMLfiles, CSSfiles, OtherFiles, log, prev, faults>>

\* elif extension.lower() in [...]: the asset is read and hashed
WalkOther ==
    \E p \in Paths :
        /\ Yields(p, AssetExtensions)
        /\ OtherFiles' = Put(OtherFiles, Str(p), OtherFile(p, Contents(1)))
        /\ UNCHANGED <<config, remote, run, pc, exit_code, fatal, src, disk, loaded,
                       upload_map, HTMLfiles, CSSfiles, JSfiles, log, prev, faults>>

WalkNext == WalkHTML \/ WalkCSS \/ WalkJS \/ WalkOther

\* the classification loop of main() over the trees of at most MaxFiles
\* files of Paths, under each configuration of Configs
WalkSpec == WalkInit /\ [][WalkNext]_vars

\* ================================================================ claims
\* the map this run loaded from upload_map.yml
LoadedMap == load_upload_map(loaded).map

\* the saves of this run made at a given place
SavesAt(at) == {i \in DOMAIN log.saves : log.saves[i].at = at}

\* a required category is present in the file with a value that is no mapping
Malformed(d) ==
    /\ d.kind = "yaml"
    /\ d.doc.type = "dict"
    /\ \E key \in Keys : key \in DOMAIN d.doc.val /\ d.doc.val[key].type # "dict"

\* a parsed mapping whose required categories are mappings where present
WellFormed(d) ==
    /\ d.kind = "yaml"
    /\ d.doc.type = "dict"
    /\ \A key \in Keys : key \in DOMAIN d.doc.val => d.doc.val[key].type = "dict"

\* C1 (as claimed): a run that starts from the map persisted by a fully
\* successful run, with no source file changed, attempts no upload of an asset
\* or of a document, and the map it persists equals the one it started from.
C1_CacheHitIdempotence ==
    (run > 1 /\ prev.ok /\ prev.changed = {}) =>
        /\ log.asset_attempts = {}
        /\ log.page_uploads = {}
        /\ (pc = "done" /\ log.clean => disk = prev.disk)

\* C2 (as claimed): after a fully successful run, when exactly one document was
\* edited, the next run (its own operations all succeeding) writes and uploads
\* exactly that document, and the persisted map differs from the previous one
\* in that document's digest only.
C2_ChangeDetection ==
    (run > 1 /\ prev.ok /\ prev.changed # {} /\ prev.changed \subseteq DocKeys
        /\ pc = "done" /\ log.clean) =>
        /\ log.build_writes = prev.changed
        /\ log.page_uploads = prev.changed
        /\ LET old == healed(prev.disk)
               new == healed(disk)
           IN  \A key \in Keys :
                 /\ DOMAIN new[key] = DOMAIN old[key]
                 /\ \A k \in DOMAIN new[key] :
                      IF k \in prev.changed
                      THEN /\ new[key][k].md5 # old[key][k].md5
                           /\ new[key][k].link_URL = old[key][k].link_URL
                      ELSE new[key][k] = old[key][k]

\* C3 (as claimed): no document upload is attempted before the map holding the
\* results of the asset phase has actually been written to upload_map.yml,
\* also when the write of write_upload_map fails.
C3_CheckpointPersisted ==
    log.page_uploads # {} =>
        \E i \in SavesAt("checkpoint") : log.saves[i].ok

\* C3 (amended): no document upload is attempted before write_upload_map has
\* been called, once, with the map that holds the results of the asset phase;
\* when that write succeeds upload_map.yml holds this map throughout the
\* document phase, when it fails the document phase runs all the same.
C3_CheckpointAttempted ==
    log.page_uploads # {} =>
        /\ Cardinality(SavesAt("checkpoint")) = 1
        /\ \A i \in SavesAt("checkpoint") :
             /\ log.saves[i].map.assets = upload_map.assets
             /\ \A a \in AssetKeys : a \in DOMAIN log.saves[i].map.assets
             /\ (log.saves[i].ok /\ pc = "docs"
                    => disk = YamlFile(Dump(log.saves[i].map)))

\* C3 witness: a page was uploaded although the write of the checkpoint failed
C3_Witness ==
    /\ log.page_uploads # {}
    /\ \E i \in SavesAt("checkpoint") : ~log.saves[i].ok

\* C4 (as claimed): when upload_map.yml holds a required category whose value
\* is no mapping, the run ends with a fatal error at the load, before any
\* upload, and does not go on with a substituted map.
C4_MalformedRejected ==
    Malformed(loaded) =>
        /\ pc = "done"
        /\ fatal = "map"
        /\ log.asset_attempts = {}
        /\ log.page_uploads = {}

\* C5: right after the load, a file that is missing, unparseable or no mapping
\* has given the empty map with the four categories; a mapping whose present
\* categories are mappings has given a map where each missing category is
\* empty and every other one holds exactly the persisted entries; in neither
\* case did the load end the run.
C5_MapHealing ==
    ~Malformed(loaded) =>
        /\ fatal # "map"
        /\ pc = "login" =>
            /\ DOMAIN upload_map = Keys \cup (IF WellFormed(loaded)
                                              THEN DOMAIN loaded.doc.val ELSE {})
            /\ ~WellFormed(loaded) => upload_map = EmptyMap
            /\ WellFormed(loaded) =>
                 \A key \in Keys :
                    upload_map[key] = IF key \in DOMAIN loaded.doc.val
                                      THEN loaded.doc.val[key].val
                                      ELSE <<>>

\* C5 witness: a file without its css section was loaded; css is empty and
\* the other sections hold the persisted entries
C5_Witness ==
    /\ pc = "login"
    /\ loaded = Damaged({"css"}, {})
    /\ upload_map.css = <<>>
    /\ upload_map.html = OldMap.html
    /\ upload_map.assets = OldMap.assets

\* the digest of the bytes an asset holds now
RawDigest(a) == generate_md5_hash(Contents(src[a]))

\* C6: when an asset upload has failed, write_upload_map was called at that
\* point, and only then, with a map that holds the current digest and the
\* returned URL of every asset uploaded earlier in this run and leaves the
\* failed asset as the map was loaded (absent, or the old entry); a write that
\* succeeds puts this map in upload_map.yml; the run has ended with no page
\* upload and with no upload of an asset after the failed one.
C6_AssetFailureCheckpointed ==
    (fatal = "asset" \/ log.asset_failed # {}) =>
        /\ pc = "done"
        /\ Cardinality(log.asset_failed) = 1
        /\ Len(log.saves) = 1
        /\ log.saves[1].at = "asset_failure"
        /\ log.saves[1].ok => disk = YamlFile(Dump(log.saves[1].map))
        /\ LET saved == log.saves[1].map.assets
               uploaded == log.assets_done \cap log.asset_attempts
           IN  /\ \A a \in uploaded :
                    /\ a \in DOMAIN saved
                    /\ saved[a].md5 = RawDigest(a)
                    /\ saved[a].link_URL \in RemoteURLs
                    /\ saved[a].link_URL = OtherFiles[a].upload_URL
               /\ \A a \in log.asset_failed :
                    /\ a \in DOMAIN saved <=> a \in DOMAIN LoadedMap.assets
                    /\ a \in DOMAIN saved => saved[a] = LoadedMap.assets[a]
               /\ log.asset_attempts = uploaded \cup log.asset_failed
               /\ log.assets_done \cap log.asset_failed = {}
        /\ log.page_uploads = {}
        /\ log.docs_done = {}

\* C6 witness: the second asset failed after the first was uploaded, and the
\* map was saved
C6_Witness ==
    /\ fatal = "asset"
    /\ Str(PaperPdf) \in log.assets_done \cap log.asset_attempts
    /\ Str(LogoPng) \in log.asset_failed
    /\ log.saves[1].ok

\* C7 (as claimed): a run that ends on a fatal condition (configuration,
\* login, asset upload) ends with a non-zero exit status, and status 0 means
\* that no fatal condition occurred.
C7_ExitStatus ==
    pc = "done" =>
        /\ fatal \in {"config", "login", "asset"} => exit_code # 0
        /\ exit_code = 0 => fatal = "none"

\* C8: each time the asset loop deals with an asset, it attempts an upload if
\* and only if the path is absent from the asset section or the stored digest
\* differs from the digest of the file's bytes; after a successful upload the
\* entry holds that digest and the URL the upload returned, a new entry the
\* upload filename too and an old entry the filename it had; with equal
\* digests the asset section stays as it is.
C8_AssetUploadDecision ==
    [][\A a \in AssetKeys :
        LET entries == upload_map.assets
            differs == a \notin DOMAIN entries \/ entries[a].md5 # RawDigest(a)
            dealt == /\ pc = "assets"
                     /\ a \notin log.assets_done \cup log.asset_failed
                     /\ a \in log.assets_done' \cup log.asset_failed'
        IN  dealt =>
              /\ a \in log.asset_attempts' <=> differs
              /\ ~differs => upload_map'.assets = entries
              /\ (differs /\ a \in log.assets_done') =>
                    /\ upload_map'.assets[a].md5 = RawDigest(a)
                    /\ upload_map'.assets[a].link_URL \in RemoteURLs
                    /\ upload_map'.assets[a].link_URL = OtherFiles'[a].upload_URL
                    /\ upload_map'.assets[a].upload_filename =
                         IF a \in DOMAIN entries THEN entries[a].upload_filename
                         ELSE generate_upload_filename(PathOf(a))
                    /\ \A b \in DOMAIN entries \ {a} :
                         upload_map'.assets[b] = entries[b]
      ]_vars

\* C8 witness: in a second run the unchanged asset was left alone and the
\* edited one, known to the map, was uploaded again
C8_Witness ==
    /\ run = 2
    /\ Str(LogoPng) \in DOMAIN LoadedMap.assets
    /\ Str(LogoPng) \in log.asset_attempts \cap log.assets_done
    /\ upload_map.assets[Str(LogoPng)].md5 # LoadedMap.assets[Str(LogoPng)].md5
    /\ Str(PaperPdf) \in log.assets_done \ log.asset_attempts

\* the document phase of this run has begun
DocumentPhaseBegun == SavesAt("checkpoint") # {}

\* C9: a read, build-write or upload failure of a document never ends the
\* run; once the document phase has begun the run ends only after every
\* classified document of the three categories was read, and each one read
\* was transformed and compared, written unless unchanged, and uploaded when
\* written.
C9_DocumentIsolation ==
    /\ log.read_failed \cup log.write_failed \cup log.upload_failed # {}
          => fatal = "none" /\ pc \in {"docs", "done"}
    /\ (pc = "done" /\ DocumentPhaseBegun) =>
          /\ log.docs_done = HtmlKeys \cup CssKeys \cup JsKeys
          /\ \A d \in log.docs_done \ log.read_failed :
                /\ d \in log.doc_skipped \cup log.build_writes
                /\ d \in log.build_writes =>
                      upload_map[FileObject(d).extension][d].md5
                          = BuildHash(d, upload_map)
                /\ d \in log.build_writes \ log.write_failed
                      => d \in log.page_uploads

\* C9 witness: the HTML upload and the CSS read failed, and the JS document
\* was uploaded in the same run
C9_Witness ==
    /\ pc = "done"
    /\ Str(IndexHtml) \in log.upload_failed
    /\ Str(StyleCss) \in log.read_failed
    /\ Str(AppJs) \in log.page_uploads \ log.upload_failed

\* the run has ended by returning from main() after exactly one save made
\* behind the document loop, every document dealt with before it
FinalSaved ==
    /\ pc = "done"
    /\ fatal = "none"
    /\ log.docs_done = DocKeys
    /\ Cardinality(SavesAt("final")) = 1
    /\ log.saves[Len(log.saves)].at = "final"
    /\ Len(log.saves) = 2

\* C10: a run whose asset phase ended without an upload failure terminates,
\* and it does so after one save of the map made behind the last document,
\* whatever documents failed to be read, written or uploaded.
C10_FinalCheckpoint ==
    /\ (pc = "docs") ~> FinalSaved
    /\ [](pc = "done" /\ DocumentPhaseBegun => FinalSaved)

\* C10 witness: the run ended with its final save although a build write and
\* a page upload failed
C10_Witness ==
    /\ FinalSaved
    /\ log.write_failed # {}
    /\ log.upload_failed # {}

\* the run ended on one of the three fatal paths of main()
FatalPaths == {"config", "login", "asset"}

\* C11 (as claimed): every run that ends on a fatal path (configuration not
\* readable, login refused, asset upload failed) has saved the in-memory map
\* before it ended.
C11_FatalSaves ==
    (pc = "done" /\ fatal \in FatalPaths) => log.saves # <<>>

\* C11 (amended): of the fatal paths only the failed asset upload saves: it
\* calls write_upload_map once with the map in memory, and a successful write
\* leaves that map in upload_map.yml.  A run ended by the configuration or by
\* the login has made no save and no upload; the map in memory is then
\* nothing (configuration) or the map as loaded (login), and upload_map.yml
\* is the file the run found.
C11_FatalCheckpoint ==
    pc = "done" =>
        /\ fatal = "asset" =>
              /\ Len(log.saves) = 1
              /\ log.saves[1].at = "asset_failure"
              /\ log.saves[1].map = upload_map
              /\ log.saves[1].ok => disk = YamlFile(Dump(upload_map))
        /\ fatal \in {"config", "login"} =>
              /\ log.saves = <<>>
              /\ log.asset_attempts = {} /\ log.page_uploads = {}
        /\ fatal = "config" => upload_map = <<>> /\ loaded = Missing
        /\ fatal = "login" => upload_map = LoadedMap /\ disk = loaded

\* C11 witness: a login failure ended a run that had loaded a map with
\* entries, and no save was made
C11_Witness ==
    /\ pc = "done"
    /\ fatal = "login"
    /\ upload_map = OldMap
    /\ log.saves = <<>>

\* the path keys upload_map.yml holds in a category
PersistedKeys(d, key) ==
    IF d.kind = "yaml" /\ d.doc.type = "dict" /\ key \in DOMAIN d.doc.val
          /\ d.doc.val[key].type = "dict"
    THEN DOMAIN d.doc.val[key].val
    ELSE {}

\* C12 (as claimed): every path key that upload_map.yml held in a category
\* when the run loaded it is a key of that category in every map the run
\* hands to write_upload_map, the keys of files that no longer exist included.
C12_AppendOnly ==
    \A i \in DOMAIN log.saves : \A key \in Keys :
        PersistedKeys(loaded, key) \subseteq DOMAIN log.saves[i].map[key]

\* C13: an HTML file directly under the source root has the upload path ""
\* and is uploaded to the edit form of Team:<team> with no path segment; an
\* HTML file in a directory d below the root has the upload path "/" + d,
\* which is never empty, and is uploaded to Team:<team>/d.
C13_RootIndex ==
    \A k \in DOMAIN HTMLfiles :
        LET p == HTMLfiles[k].path
            page == "https://2020.igem.org/wiki/index.php?title=Team:" \o config.team
        IN  IF p.dir = <<>>
            THEN /\ HTML_generate_upload_path(p) = ""
                 /\ HTMLfiles[k].upload_URL = page \o "&action=edit"
            ELSE /\ HTML_generate_upload_path(p) = "/" \o Join(p.dir, "/")
                 /\ HTML_generate_upload_path(p) # ""
                 /\ HTMLfiles[k].upload_URL
                        = page \o "/" \o Join(p.dir, "/") \o "&action=edit"

\* C13 witness: the walk met index.html at the root and an index.html two
\* directories down
C13_Witness ==
    /\ "index.html" \in DOMAIN HTMLfiles
    /\ HTMLfiles["index.html"].upload_URL
          = "https://2020.igem.org/wiki/index.php?title=Team:MYTEAM&action=edit"
    /\ "about/assets/index.html" \in DOMAIN HTMLfiles
    /\ HTMLfiles["about/assets/index.html"].upload_URL
          = "https://2020.igem.org/wiki/index.php?title=Team:MYTEAM/about/assets&action=edit"

\* every component of a sequence with "--" in front of it
RECURSIVE Dashed(_)
Dashed(parts) ==
    IF parts = <<>> THEN "" ELSE "--" \o parts[1] \o Dashed(Tail(parts))

\* C14: the upload filename of an asset is the team prefix T--<team>--
\* followed by the path components joined with "--": all components but the
\* first when the configured list of asset roots has exactly one element, all
\* components when it has more than one.
C14_AssetFilename ==
    \A k \in DOMAIN OtherFiles :
        LET names == Parts(OtherFiles[k].path)
            kept == IF Len(config.assets) = 1
                    THEN SubSeq(names, 2, Len(names))
                    ELSE names
        IN  (Len(config.assets) >= 1) =>
                OtherFiles[k].upload_filename
                    = IF kept = <<>> THEN "T--" \o config.team \o "--"
                      ELSE "T--" \o config.team \o Dashed(kept)

\* C14 witness: under two asset roots an asset two directories down keeps
\* every component, and an asset at the root keeps its name
C14_Witness ==
    /\ Len(config.assets) > 1
    /\ "assets/about/logo.png" \in DOMAIN OtherFiles
    /\ OtherFiles["assets/about/logo.png"].upload_filename
          = "T--MYTEAM--assets--about--logo.png"
    /\ "logo.png" \in DOMAIN OtherFiles
    /\ OtherFiles["logo.png"].upload_filename = "T--MYTEAM--logo.png"

\* C15 (as claimed): the classification loop leaves every entry of the map
\* it found as it was: each path key of each category is still there, with
\* the same digest and the same link URL.
C15_ClassificationFrame ==
    [][(pc = "classify" /\ pc' = "assets") =>
          \A key \in Keys : \A k \in DOMAIN upload_map[key] :
              /\ k \in DOMAIN upload_map'[key]
              /\ upload_map'[key][k] = upload_map[key][k]]_vars

\* every classified asset has been dealt with, and the map holds for each an
\* entry whose link URL is the one its most recent successful upload returned
AssetsSettled ==
    /\ log.assets_done = AssetKeys
    /\ \A a \in AssetKeys :
          /\ a \in DOMAIN upload_map.assets
          /\ a \in DOMAIN remote
          /\ upload_map.assets[a].link_URL = remote[a]

C18_DigestMeansUploaded ==
    \A i \in DOMAIN log.saves : \A d \in DocKeys :
        LET ext == FileObject(d).extension
            entries == log.saves[i].map[ext]
        IN  (d \in DOMAIN entries /\ entries[d].md5 # "") =>
                \/ d \in log.page_uploads \ log.upload_failed
                \/ /\ d \in DOMAIN LoadedMap[ext]
                   /\ LoadedMap[ext][d].md5 = entries[d].md5

C20_DistinctUploadURLs ==
    \A k1 \in DOMAIN HTMLfiles : \A k2 \in DOMAIN HTMLfiles :
        k1 # k2 => HTMLfiles[k1].upload_URL # HTMLfiles[k2].upload_URL

\* C20 (amended): two HTML files classified in the same run have the same
\* upload URL exactly when they lie in the same directory; the file name
\* takes no part in the URL.
C20_UploadURLPerDirectory ==
    \A k1 \in DOMAIN HTMLfiles : \A k2 \in DOMAIN HTMLfiles :
        (HTMLfiles[k1].upload_URL = HTMLfiles[k2].upload_URL)
            <=> (HTMLfiles[k1].path.dir = HTMLfiles[k2].path.dir)

\* C20 witness: about/index.html and about/team.html were classified in one
\* walk and are uploaded to the same page
C20_Witness ==
    /\ {"about/index.html", "about/team.html"} \subseteq DOMAIN HTMLfiles
    /\ HTMLfiles["about/index.html"].upload_URL
          = "https://2020.igem.org/wiki/index.php?title=Team:MYTEAM/about&action=edit"
    /\ HTMLfiles["about/team.html"].upload_URL
          = HTMLfiles["about/index.html"].upload_URL

====
